---- MODULE Spec2Model ----
(***************************************************************************)
(* Job orchestration of the 3D-generation backends: the in-memory job map, *)
(* the HTTP handlers and the background pipeline task of each of the three *)
(* applications (main.py: Nerfstudio, main_gaussian_splatting.py,          *)
(* main_colmap.py), and the frame samplers.                                *)
(*                                                                         *)
(* Scheduling is asyncio's: one coroutine runs at a time and gives up the  *)
(* event loop only at an await.  `running` names the job whose task holds  *)
(* the loop between two awaits (0: the loop is free); handlers and other   *)
(* tasks take steps only when it is 0, so the states with running = 0 are  *)
(* exactly the states a request can observe.                               *)
(*                                                                         *)
(* Not modelled: the message and created_at fields of a record (written,   *)
(* never read), the bytes of files, and failures of mkdir, of the upload   *)
(* write and of spawning a process.                                        *)
(***************************************************************************)
EXTENDS Integers, Sequences, FiniteSets, TLC

VARIABLES
    variant,      \* which application is running: "nerf", "gs" or "colmap"
    jobs_status,  \* the dict jobs_status: job id -> record
    task,         \* position of each job's background task
    running,      \* job whose task holds the event loop, 0 if none
    proc,         \* last stage started for each job and how it ended
    outputs,      \* job ids whose canonical artifact outputs/<id>.ply exists
    job_dirs,     \* job ids whose working directory jobs/<id> exists
    uploads,      \* uploads/<id>.mp4: "none", or the kind of content saved
    next_id,      \* number of identifiers handed out by uuid4 so far
    s_in,         \* sampler run: its input (frames, target), or NoInput
    s_out         \* sampler run: its result, or NoOutput

vars == <<variant, jobs_status, task, running, proc, outputs, job_dirs,
          uploads, next_id, s_in, s_out>>

(***************************************************************************)
(* Bounds and program constants                                            *)
(***************************************************************************)
MaxJobs == 2

MaxSrcFrames == 24

MaxTarget == 6

MAX_CONCURRENT_JOBS == 2

MIN_FRAMES == 10

TARGET_FRAMES == 50

SAMPLE_FPS == 3

PROGRESS_STEP == 5

PROGRESS_CAP == 85

\* The values Config.CLEANUP_TEMP_FILES can be given (environment variable
\* CLEANUP_TEMP_FILES).  No application imports config.py: the behaviours
\* are the same under either value.
CLEANUP_TEMP_FILES == BOOLEAN

\* Job identifiers: enough for MaxJobs jobs and for one job more than the
\* configured number of concurrent jobs.
Jobs ==
    1..(IF MaxJobs > MAX_CONCURRENT_JOBS
        THEN MaxJobs ELSE MAX_CONCURRENT_JOBS + 1)

Variants == {"nerf", "gs", "colmap"}

\* Videos a client may upload: native frame count and native frame rate.
Videos ==
    { [frames |-> 8,   fps |-> 8],
      [frames |-> 300, fps |-> 30],
      [frames |-> 40,  fps |-> 2] }

\* What cv2 reports for a file that is not a video: no frame, rate 0.
NotAVideo == [frames |-> 0, fps |-> 0]

(***************************************************************************)
(* Records                                                                 *)
(***************************************************************************)
NoError == [kind |-> "none", stage |-> 0, n |-> 0]

Err(kind, stage, n) == [kind |-> kind, stage |-> stage, n |-> n]

NoUrl == 0

\* "/download/<job_id>.ply", represented by the job id.
DownloadUrl(j) == j

NewRecord ==
    [status |-> "queued", progress |-> 0, download_url |-> NoUrl,
     error |-> NoError]

NoProc == [stage |-> 0, rc |-> "none"]

Has(j) == j \in DOMAIN jobs_status

Put(j, r) ==
    [k \in (DOMAIN jobs_status) \cup {j} |->
        IF k = j THEN r ELSE jobs_status[k]]

\* The whole dict cleared instead of one key deleted.
DelAll(j) == [k \in {} |-> NewRecord]

Del(j) == [k \in (DOMAIN jobs_status) \ {j} |-> jobs_status[k]]

\* The value written to every record of the dict.
SetProgressAll(j, p) ==
    [k \in DOMAIN jobs_status |-> [jobs_status[k] EXCEPT !.progress = p]]

\* jobs_status[job_id][field] = value, on a record that exists.
SetProgress(j, p) == [jobs_status EXCEPT ![j].progress = p]

(***************************************************************************)
(* Frame samplers                                                          *)
(***************************************************************************)
\* cv2.imwrite to frame_<ordinal>.jpg: a file of that name is overwritten.
WriteFrame(files, ordinal, frame) ==
    {f \in files : f[1] # ordinal} \cup {<<ordinal, frame>>}

\* extracted_count += 1
BumpExtracted(extracted_count) == extracted_count + 1

\* interval = max(1, total_frames // target_frames)
NerfInterval(total_frames, target_frames) ==
    IF total_frames \div target_frames >= 1
    THEN total_frames \div target_frames
    ELSE 1

\* The test written with > : the loop is left one frame too late.
TargetReachedStrict(extracted_count, target_frames) ==
    extracted_count > target_frames

\* extracted_count >= target_frames
TargetReached(extracted_count, target_frames) ==
    extracted_count >= target_frames

\* The state of the sampling loop: the frames read so far (frame_count),
\* the frames written so far, the directory, and whether the loop was left.
LoopStart == [frame_count |-> 0, extracted_count |-> 0, files |-> {},
              stopped |-> FALSE]

\* One turn of the while loop of main.py's extract_frames_from_video:
\* cap.read() fails at the end of the source; a frame whose index is a
\* multiple of interval is written; the loop is left at the target.
NerfStep(st, total, interval, target) ==
    IF st.stopped THEN st
    ELSE IF st.frame_count >= total THEN [st EXCEPT !.stopped = TRUE]
    ELSE IF st.frame_count % interval = 0
         THEN LET written == WriteFrame(st.files, st.extracted_count,
                                        st.frame_count)
                  extracted == BumpExtracted(st.extracted_count)
              IN  IF TargetReached(extracted, target)
                  THEN [st EXCEPT !.extracted_count = extracted,
                                  !.files = written, !.stopped = TRUE]
                  ELSE [st EXCEPT !.extracted_count = extracted,
                                  !.files = written,
                                  !.frame_count = @ + 1]
         ELSE [st EXCEPT !.frame_count = @ + 1]

RECURSIVE NerfLoop(_, _, _, _, _)
\* n turns of the loop, one after the other (a loop that was left stays so).
NerfLoop(st, n, total, interval, target) ==
    IF n = 0 THEN st
    ELSE IF n = 1 THEN NerfStep(st, total, interval, target)
    ELSE LET half == NerfLoop(st, n \div 2, total, interval, target)
         IN  IF half.stopped THEN half
             ELSE NerfLoop(half, n - (n \div 2), total, interval, target)

\* main.py: extract_frames_from_video(video_path, output_dir, target_frames);
\* the loop is left after at most total_frames + 1 turns.
NerfExtract(total_frames, target_frames) ==
    LET st == NerfLoop(LoopStart, total_frames + 1, total_frames,
                       NerfInterval(total_frames, target_frames),
                       target_frames)
    IN  [count |-> st.extracted_count, files |-> st.files]

\* main_colmap.py: frame_interval = max(1, int(video_fps / fps))
ColmapInterval(video_fps, fps) ==
    IF video_fps \div fps >= 1 THEN video_fps \div fps ELSE 1

\* main_gaussian_splatting.py: frame_interval = int(video_fps / fps)
GsInterval(video_fps, fps) == video_fps \div fps

\* One turn of the while loop of the fps-based samplers, which have no
\* target: interval is not 0 here.
FpsStep(st, total, interval) ==
    IF st.stopped THEN st
    ELSE IF st.frame_count >= total THEN [st EXCEPT !.stopped = TRUE]
    ELSE IF st.frame_count % interval = 0
         THEN [st EXCEPT !.extracted_count = @ + 1, !.frame_count = @ + 1]
         ELSE [st EXCEPT !.frame_count = @ + 1]

RECURSIVE FpsLoop(_, _, _, _)
FpsLoop(st, n, total, interval) ==
    IF n = 0 THEN st
    ELSE IF n = 1 THEN FpsStep(st, total, interval)
    ELSE LET half == FpsLoop(st, n \div 2, total, interval)
         IN  IF half.stopped THEN half
             ELSE FpsLoop(half, n - (n \div 2), total, interval)

\* Result of the fps-based samplers: the number of frames saved, or raised
\* (ZeroDivisionError) when frame_count % 0 is evaluated on the first frame.
FpsExtract(total, interval) ==
    IF total > 0 /\ interval = 0
    THEN [raised |-> TRUE, count |-> 0]
    ELSE [raised |-> FALSE,
          count |-> FpsLoop(LoopStart, total + 1, total, interval)
                        .extracted_count]

\* num_frames = extract_frames_from_video(...) as each application calls it.
ExtractFrames(v, video) ==
    CASE v = "nerf" ->
            [raised |-> FALSE,
             count |-> NerfExtract(video.frames, TARGET_FRAMES).count]
      [] v = "gs" ->
            FpsExtract(video.frames, GsInterval(video.fps, SAMPLE_FPS))
      [] v = "colmap" ->
            FpsExtract(video.frames, ColmapInterval(video.fps, SAMPLE_FPS))

\* The same, tabulated for the files a client may upload.
SamplerResult ==
    [v \in Variants |->
        [video \in Videos \cup {NotAVideo} |-> ExtractFrames(v, video)]]

(***************************************************************************)
(* Initial state: a freshly started application, no request served yet     *)
(***************************************************************************)
NoInput == [frames |-> 0, target |-> 0]

NoOutput == [count |-> 0 - 1, files |-> {}]

InitJobs ==
    /\ variant \in Variants
    /\ jobs_status = [k \in {} |-> NewRecord]
    /\ task = [j \in Jobs |-> "none"]
    /\ running = 0
    /\ proc = [j \in Jobs |-> NoProc]
    /\ outputs = {}
    /\ job_dirs = {}
    /\ uploads = [j \in Jobs |-> "none"]
    /\ next_id = 0

Init ==
    /\ InitJobs
    /\ s_in = NoInput
    /\ s_out = NoOutput

(***************************************************************************)
(* The except block of the pipeline task                                   *)
(***************************************************************************)
\* main.py resets progress to 0 in the handler; the other two leave it.
FailedProgress(v, p) == IF v = "nerf" THEN 0 ELSE p

\* The handler writing a fixed text instead of str(e).
FailedRecordGeneric(r, e) ==
    [r EXCEPT !.status = "failed", !.error = Err("generic", 0, 0),
              !.progress = FailedProgress(variant, r.progress)]

\* The record as the handler leaves it.
FailedRecord(r, e) ==
    [r EXCEPT !.status = "failed", !.error = e,
              !.progress = FailedProgress(variant, r.progress)]

\* An exception e raised inside the try block of job j's task, the dict
\* being js when it is raised.  The handler indexes jobs_status[job_id]:
\* with the record gone that raises KeyError inside the handler, and the
\* exception leaves the task.
RaiseIn(js, j, e) ==
    /\ running' = 0
    /\ IF j \in DOMAIN js
       THEN /\ jobs_status' = [js EXCEPT ![j] = FailedRecord(@, e)]
            /\ task' = [task EXCEPT ![j] = "done"]
       ELSE /\ jobs_status' = js
            /\ task' = [task EXCEPT ![j] = "crashed"]

Raise(j, e) == RaiseIn(jobs_status, j, e)

KeyError == Err("keyerror", 0, 0)

(***************************************************************************)
(* HTTP handlers.  A handler's answer is a function of the state it runs   *)
(* in: the ...Code and ...Body operators give it.                          *)
(***************************************************************************)
\* Whether generate_3d checks file.content_type (main_colmap.py does not).
ValidatesContentType(v) == v \in {"nerf", "gs"}

\* Whether generate_3d rejects a file of this kind.
Rejects(v, is_video) == ValidatesContentType(v) /\ ~is_video

\* Response code of POST /generate-3d.  The HTTPException(400) is raised
\* inside try and caught by the handler's own `except Exception`, which
\* raises HTTPException(500) instead.
SubmitCode(v, is_video) == IF Rejects(v, is_video) THEN 500 ELSE 200

\* An identifier taken from the number of records: reused after a deletion.
FreshIdReused == Cardinality(DOMAIN jobs_status) + 1

\* The identifier uuid4 returns: one no job has had.
FreshId == next_id + 1

\* POST /generate-3d with a file whose content type is video/* or not; at
\* most limit jobs are followed.
Submit(is_video, limit) ==
    /\ running = 0
    /\ IF Rejects(variant, is_video)
       THEN UNCHANGED <<jobs_status, task, uploads, next_id>>
       ELSE /\ next_id < limit
            /\ uploads' = [uploads EXCEPT ![FreshId] =
                              IF is_video THEN "video" ELSE "other"]
            /\ jobs_status' = Put(FreshId, NewRecord)
            /\ task' = [task EXCEPT ![FreshId] = "pending"]
            /\ next_id' = FreshId
    /\ UNCHANGED <<variant, running, proc, outputs, job_dirs, s_in, s_out>>

generate_3d(is_video) == Submit(is_video, MaxJobs)

\* Response code of GET /job-status/{job_id}.
StatusCode(j) == IF Has(j) THEN 200 ELSE 404

\* GET /job-status/{job_id}: returns jobs_status[job_id], writes nothing.
get_job_status(j) ==
    /\ running = 0
    /\ UNCHANGED vars

\* Response code of GET /download/<job_id>.ply.
DownloadCode(j) == IF j \in outputs THEN 200 ELSE 404

\* GET /download/{filename}, for the canonical file name of job j
download_model(j) ==
    /\ running = 0
    /\ UNCHANGED vars

\* The directories delete_job removes: main_colmap.py removes jobs/<id>.
DeletedDirs(v, j) == IF v = "colmap" THEN {j} ELSE {}

\* Success reported whether or not the record exists.
DeleteCodeAlwaysOk(j) == 200

\* Response code of DELETE /job/{job_id}.
DeleteCode(j) == IF Has(j) THEN 200 ELSE 404

\* DELETE /job/{job_id} (main_gaussian_splatting.py has no such route)
delete_job(j) ==
    /\ running = 0
    /\ variant # "gs"
    /\ IF Has(j)
       THEN /\ outputs' = outputs \ {j}
            /\ job_dirs' = job_dirs \ DeletedDirs(variant, j)
            /\ jobs_status' = Del(j)
       ELSE UNCHANGED <<outputs, job_dirs, jobs_status>>
    /\ UNCHANGED <<variant, task, running, proc, uploads, next_id,
                   s_in, s_out>>

\* Body of GET /jobs: main_colmap.py returns no "total".
ListBody ==
    [jobs |-> {jobs_status[k] : k \in DOMAIN jobs_status},
     ids |-> DOMAIN jobs_status,
     total |-> IF variant = "colmap" THEN 0 - 1
               ELSE Cardinality(DOMAIN jobs_status)]

\* Response code of GET /jobs: main_gaussian_splatting.py has no such route.
ListCode(v) == IF v = "gs" THEN 404 ELSE 200

\* GET /jobs (main_gaussian_splatting.py has no such route)
list_jobs ==
    /\ running = 0
    /\ variant # "gs"
    /\ UNCHANGED vars

(***************************************************************************)
(* The pipeline task: process_3d_generation, process_gaussian_splatting    *)
(* and process_colmap.  Stage numbers: 1 is frame sampling; then           *)
(*   nerf:   2 ns-process-data, 3 ns-train, 4 ns-export                    *)
(*   gs:     2 convert.py, 3 train.py                                      *)
(*   colmap: 2 feature_extractor, 3 exhaustive_matcher, 4 mapper,          *)
(*           5 model_converter                                             *)
(* proc[j].rc is "run" while the stage's process runs, then "ok", "exit"   *)
(* (nonzero exit code), "pred" (its expected output is missing), "few"     *)
(* (too few frames) or "raised" (the sampler raised).                      *)
(***************************************************************************)
ExitCodes == {0, 1}

Proc(stage, rc) == [stage |-> stage, rc |-> rc]

\* First lines of the try block: status, message, progress, then the mkdirs.
BeginRecord(r) == [r EXCEPT !.status = "processing", !.progress = 10]

\* The scheduler starts the background task added by generate_3d.
TaskBegin(j) ==
    /\ running = 0
    /\ task[j] = "pending"
    /\ IF Has(j)
       THEN /\ jobs_status' = [jobs_status EXCEPT ![j] = BeginRecord(@)]
            /\ job_dirs' = job_dirs \cup {j}
            /\ task' = [task EXCEPT ![j] = "extract"]
            /\ running' = j
       ELSE /\ Raise(j, KeyError)
            /\ job_dirs' = job_dirs
    /\ UNCHANGED <<variant, proc, outputs, uploads, next_id,
                   s_in, s_out>>

\* What cv2 finds in uploads/<id>.mp4.
Readable(kind) == IF kind = "video" THEN Videos ELSE {NotAVideo}

\* The test written against 1: a single frame is enough to go on.
TooFewNone(num_frames) == num_frames < 1

\* num_frames < 10
TooFew(num_frames) == num_frames < MIN_FRAMES

\* Where the task goes once the frames are extracted: main.py and
\* main_gaussian_splatting.py spawn the pose-estimation process and await
\* it; main_colmap.py goes on synchronously.
AfterExtract(v) == IF v = "colmap" THEN "feature" ELSE "colmap"

\* Step 1, frame sampling, up to the start of stage 2.
TaskExtract(j, video) ==
    /\ running = j
    /\ task[j] = "extract"
    /\ video \in Readable(uploads[j])
    /\ LET r == SamplerResult[variant][video]
       IN  IF r.raised
           THEN /\ Raise(j, Err("zerodiv", 1, 0))
                /\ proc' = [proc EXCEPT ![j] = Proc(1, "raised")]
           ELSE IF TooFew(r.count)
           THEN /\ Raise(j, Err("frames", 1, r.count))
                /\ proc' = [proc EXCEPT ![j] = Proc(1, "few")]
           ELSE /\ jobs_status' = SetProgress(j, 20)
                /\ task' = [task EXCEPT ![j] = AfterExtract(variant)]
                /\ IF variant = "colmap"
                   THEN /\ running' = j
                        /\ proc' = [proc EXCEPT ![j] = Proc(1, "ok")]
                   ELSE /\ running' = 0
                        /\ proc' = [proc EXCEPT ![j] = Proc(2, "run")]
    /\ UNCHANGED <<variant, outputs, job_dirs, uploads, next_id,
                   s_in, s_out>>

\* The loop never noticing that the process exited.
AfterSpawnTrainNever(exited) == "train"

\* Whether the training process has already exited when the polling loop
\* first tests process.returncode.
AfterSpawnTrain(exited) == IF exited THEN "train_comm" ELSE "train"

\* Stage 2 of main.py and main_gaussian_splatting.py: communicate() returns.
ColmapExit(j, rc, exited) ==
    /\ running = 0
    /\ variant \in {"nerf", "gs"}
    /\ task[j] = "colmap"
    /\ IF rc # 0
       THEN /\ Raise(j, Err("exit", 2, 0))
            /\ proc' = [proc EXCEPT ![j] = Proc(2, "exit")]
       ELSE IF ~Has(j)
       THEN /\ Raise(j, KeyError)
            /\ proc' = [proc EXCEPT ![j] = Proc(2, "ok")]
       ELSE /\ jobs_status' = SetProgress(j, 40)
            /\ proc' = [proc EXCEPT ![j] = Proc(3, "run")]
            /\ task' = [task EXCEPT ![j] = AfterSpawnTrain(exited)]
            /\ running' = 0
    /\ UNCHANGED <<variant, outputs, job_dirs, uploads, next_id,
                   s_in, s_out>>

\* The loop's counter started at 0 instead of 40: the first turn writes 5.
NextProgressFromZero(p) ==
    IF p = 40 THEN PROGRESS_STEP
    ELSE IF p + PROGRESS_STEP <= PROGRESS_CAP
         THEN p + PROGRESS_STEP ELSE PROGRESS_CAP

\* The increment written twice as large.
NextProgressDouble(p) ==
    IF p + 2 * PROGRESS_STEP <= PROGRESS_CAP
    THEN p + 2 * PROGRESS_STEP ELSE PROGRESS_CAP

\* progress = min(progress + 5, 85)
NextProgress(p) ==
    IF p + PROGRESS_STEP <= PROGRESS_CAP
    THEN p + PROGRESS_STEP ELSE PROGRESS_CAP

\* One turn of the polling loop: the sleep ends, the progress is written,
\* and wait_for(process.wait(), 0.1) either returns (the process exited) or
\* times out.
TrainTick(j, exited) ==
    /\ running = 0
    /\ task[j] = "train"
    /\ IF ~Has(j)
       THEN Raise(j, KeyError)
       ELSE /\ jobs_status' =
                   SetProgress(j, NextProgress(jobs_status[j].progress))
            /\ task' = [task EXCEPT ![j] = AfterSpawnTrain(exited)]
            /\ running' = 0
    /\ UNCHANGED <<variant, proc, outputs, job_dirs, uploads, next_id,
                   s_in, s_out>>

\* Success: status, progress, message, download_url.
CompletedRecord(r, j) ==
    [r EXCEPT !.status = "completed", !.progress = 100,
              !.download_url = DownloadUrl(j)]

\* Stage 3: communicate() returns after the polling loop.  has_output: the
\* checkpoint (main.py) or the point cloud (gs) the training should leave.
TrainDone(j, rc, has_output) ==
    /\ running = 0
    /\ task[j] = "train_comm"
    /\ IF rc # 0
       THEN /\ Raise(j, Err("exit", 3, 0))
            /\ proc' = [proc EXCEPT ![j] = Proc(3, "exit")]
            /\ outputs' = outputs
       ELSE IF ~Has(j)
       THEN /\ Raise(j, KeyError)
            /\ proc' = [proc EXCEPT ![j] = Proc(3, "ok")]
            /\ outputs' = outputs
       ELSE IF ~has_output
       THEN /\ RaiseIn(SetProgress(j, 90), j, Err("pred", 3, 0))
            /\ proc' = [proc EXCEPT ![j] = Proc(3, "pred")]
            /\ outputs' = outputs
       ELSE IF variant = "nerf"
       THEN /\ jobs_status' = SetProgress(j, 90)
            /\ proc' = [proc EXCEPT ![j] = Proc(4, "run")]
            /\ task' = [task EXCEPT ![j] = "export"]
            /\ running' = 0
            /\ outputs' = outputs
       ELSE /\ outputs' = outputs \cup {j}
            /\ jobs_status' =
                   [jobs_status EXCEPT ![j] = CompletedRecord(@, j)]
            /\ proc' = [proc EXCEPT ![j] = Proc(3, "ok")]
            /\ task' = [task EXCEPT ![j] = "cleanup"]
            /\ running' = j
    /\ UNCHANGED <<variant, job_dirs, uploads, next_id, s_in, s_out>>

\* Number of files OUTPUT_DIR.glob(f"{job_id}*.ply") may find after export.
Candidates == 0..2

\* shutil.move(ply_files[0], final_ply): the canonical file exists afterwards.
Moved(files, j) == files \cup {j}

\* Stage 4 of main.py: communicate() returns, the artifact is resolved and
\* the record marked completed.
ExportDone(j, rc, ncand) ==
    /\ running = 0
    /\ variant = "nerf"
    /\ task[j] = "export"
    /\ IF rc # 0
       THEN /\ Raise(j, Err("exit", 4, 0))
            /\ proc' = [proc EXCEPT ![j] = Proc(4, "exit")]
            /\ outputs' = outputs
       ELSE IF ncand = 0
       THEN /\ Raise(j, Err("artifact", 4, 0))
            /\ proc' = [proc EXCEPT ![j] = Proc(4, "ok")]
            /\ outputs' = outputs
       ELSE /\ outputs' = Moved(outputs, j)
            /\ proc' = [proc EXCEPT ![j] = Proc(4, "ok")]
            /\ IF Has(j)
               THEN /\ jobs_status' =
                          [jobs_status EXCEPT ![j] = CompletedRecord(@, j)]
                    /\ task' = [task EXCEPT ![j] = "cleanup"]
                    /\ running' = j
               ELSE Raise(j, KeyError)
    /\ UNCHANGED <<variant, job_dirs, uploads, next_id, s_in, s_out>>

\* The cleanup without the unlink: the uploaded video is left behind.
CleanupLeavesUpload(j, unlink_ok) ==
    /\ running = j
    /\ task[j] = "cleanup"
    /\ job_dirs' = job_dirs \ {j}
    /\ task' = [task EXCEPT ![j] = "done"]
    /\ running' = 0
    /\ UNCHANGED <<variant, jobs_status, proc, outputs, uploads, next_id,
                   s_in, s_out>>

\* Cleanup of main.py and main_gaussian_splatting.py, inside the try block
\* and after the record is marked completed: rmtree(ignore_errors=True),
\* then video_path.unlink(), which raises OSError when unlink_ok is false.
Cleanup(j, unlink_ok) ==
    /\ running = j
    /\ task[j] = "cleanup"
    /\ job_dirs' = job_dirs \ {j}
    /\ IF unlink_ok
       THEN /\ uploads' = [uploads EXCEPT ![j] = "none"]
            /\ task' = [task EXCEPT ![j] = "done"]
            /\ running' = 0
            /\ jobs_status' = jobs_status
       ELSE /\ uploads' = uploads
            /\ Raise(j, Err("cleanup", 0, 0))
    /\ UNCHANGED <<variant, proc, outputs, next_id, s_in, s_out>>

(***************************************************************************)
(* process_colmap runs its stages with subprocess.run: the task never      *)
(* awaits, so it holds the event loop from its first line to its last.     *)
(***************************************************************************)
\* The three stages that only run a command and test its exit code:
\* stage number, progress written on success, next position.
SyncStages ==
    [feature  |-> [stage |-> 2, progress |-> 40, next |-> "matching"],
     matching |-> [stage |-> 3, progress |-> 60, next |-> "mapper"],
     mapper   |-> [stage |-> 4, progress |-> 80, next |-> "c_export"]]

\* feature_extractor, exhaustive_matcher, mapper
SyncStage(j, rc) ==
    /\ running = j
    /\ variant = "colmap"
    /\ task[j] \in DOMAIN SyncStages
    /\ LET st == SyncStages[task[j]]
       IN  IF rc # 0
           THEN /\ Raise(j, Err("exit", st.stage, 0))
                /\ proc' = [proc EXCEPT ![j] = Proc(st.stage, "exit")]
           ELSE /\ jobs_status' = SetProgress(j, st.progress)
                /\ proc' = [proc EXCEPT ![j] = Proc(st.stage, "ok")]
                /\ task' = [task EXCEPT ![j] = st.next]
                /\ running' = j
    /\ UNCHANGED <<variant, outputs, job_dirs, uploads, next_id,
                   s_in, s_out>>

\* What model_converter leaves at outputs/<id>.ply.
Written(files, j, wrote) == IF wrote THEN files \cup {j} ELSE files

\* Stage 5 of main_colmap.py, then the cleanup (before the record is marked)
\* and the success writes.  model_exists: sparse/0 was made by the mapper.
SyncExport(j, model_exists, rc, wrote, cleanup_ok) ==
    /\ running = j
    /\ variant = "colmap"
    /\ task[j] = "c_export"
    /\ IF ~model_exists
       THEN /\ Raise(j, Err("pred", 4, 0))
            /\ proc' = [proc EXCEPT ![j] = Proc(4, "pred")]
            /\ UNCHANGED <<outputs, job_dirs, uploads>>
       ELSE IF rc # 0
       THEN /\ Raise(j, Err("exit", 5, 0))
            /\ proc' = [proc EXCEPT ![j] = Proc(5, "exit")]
            /\ outputs' = Written(outputs, j, wrote)
            /\ UNCHANGED <<job_dirs, uploads>>
       ELSE IF ~cleanup_ok
       THEN /\ Raise(j, Err("cleanup", 0, 0))
            /\ proc' = [proc EXCEPT ![j] = Proc(5, "ok")]
            /\ outputs' = Written(outputs, j, wrote)
            /\ UNCHANGED <<job_dirs, uploads>>
       ELSE /\ jobs_status' =
                   [jobs_status EXCEPT ![j] = CompletedRecord(@, j)]
            /\ proc' = [proc EXCEPT ![j] = Proc(5, "ok")]
            /\ outputs' = Written(outputs, j, wrote)
            /\ uploads' = [uploads EXCEPT ![j] = "none"]
            /\ job_dirs' = job_dirs \ {j}
            /\ task' = [task EXCEPT ![j] = "done"]
            /\ running' = 0
    /\ UNCHANGED <<variant, next_id, s_in, s_out>>

(***************************************************************************)
(* An external process that never exits.  No call that waits for a process *)
(* has a timeout: communicate() (main.py, main_gaussian_splatting.py) is   *)
(* awaited for ever, and subprocess.run (main_colmap.py) never returns, so *)
(* the task stays where it is; in main_colmap.py it keeps the event loop.  *)
(***************************************************************************)
\* The positions at which the task waits for a process without polling it.
HangPoints(v) ==
    IF v = "colmap"
    THEN {"feature", "matching", "mapper", "c_export"}
    ELSE {"colmap", "export"}

\* The stage whose process the task waits for at position t.
StageAt(v, j, t) ==
    IF v # "colmap" THEN proc[j].stage
    ELSE IF t = "c_export" THEN 5 ELSE SyncStages[t].stage

\* The process job j's task waits for never exits.
Hang(j) ==
    /\ task[j] \in HangPoints(variant)
    /\ running = (IF variant = "colmap" THEN j ELSE 0)
    /\ proc' = [proc EXCEPT ![j] = Proc(StageAt(variant, j, task[j]), "hung")]
    /\ task' = [task EXCEPT ![j] = "hung"]
    /\ UNCHANGED <<variant, jobs_status, running, outputs, job_dirs, uploads,
                   next_id, s_in, s_out>>

(***************************************************************************)
(* The training process is started with stdout and stderr as pipes, and    *)
(* nothing reads them before communicate(), which is called after the      *)
(* polling loop.  A process that has filled a pipe blocks in write() and    *)
(* cannot exit: process.wait() times out at every turn of the loop.        *)
(***************************************************************************)
\* The training process of job j fills a pipe and blocks.
PipeFull(j) ==
    /\ running = 0
    /\ task[j] = "train"
    /\ task' = [task EXCEPT ![j] = "train_blocked"]
    /\ UNCHANGED <<variant, jobs_status, running, proc, outputs, job_dirs,
                   uploads, next_id, s_in, s_out>>

\* One turn of the polling loop with the process blocked: the progress is
\* written and wait_for times out.
BlockedTick(j) ==
    /\ running = 0
    /\ task[j] = "train_blocked"
    /\ IF ~Has(j)
       THEN Raise(j, KeyError)
       ELSE /\ jobs_status' =
                   SetProgress(j, NextProgress(jobs_status[j].progress))
            /\ UNCHANGED <<task, running>>
    /\ UNCHANGED <<variant, proc, outputs, job_dirs, uploads, next_id,
                   s_in, s_out>>

(***************************************************************************)
(* One run of main.py's sampler on its own                                 *)
(***************************************************************************)
SamplerInputs ==
    {[frames |-> f, target |-> t] : f \in 0..MaxSrcFrames, t \in 1..MaxTarget}
        \cup {[frames |-> 300, target |-> TARGET_FRAMES],
              [frames |-> 8, target |-> TARGET_FRAMES]}

Sample ==
    /\ s_in # NoInput
    /\ s_out = NoOutput
    /\ s_out' = NerfExtract(s_in.frames, s_in.target)
    /\ UNCHANGED <<s_in, variant, jobs_status, task, running, proc, outputs,
                   job_dirs, uploads, next_id>>

InitSampler ==
    /\ InitJobs
    /\ s_in \in SamplerInputs
    /\ s_out = NoOutput

(***************************************************************************)
(* Specifications                                                          *)
(***************************************************************************)
Handlers ==
    \/ \E is_video \in BOOLEAN : generate_3d(is_video)
    \/ \E j \in Jobs : get_job_status(j)
    \/ \E j \in Jobs : download_model(j)
    \/ \E j \in Jobs : delete_job(j)
    \/ list_jobs

Executor ==
    \/ \E j \in Jobs : TaskBegin(j)
    \/ \E j \in Jobs : \E video \in Videos \cup {NotAVideo} :
          TaskExtract(j, video)
    \/ \E j \in Jobs : \E rc \in ExitCodes : \E exited \in BOOLEAN :
          ColmapExit(j, rc, exited)
    \/ \E j \in Jobs : \E exited \in BOOLEAN : TrainTick(j, exited)
    \/ \E j \in Jobs : \E rc \in ExitCodes : \E has_output \in BOOLEAN :
          TrainDone(j, rc, has_output)
    \/ \E j \in Jobs : \E rc \in ExitCodes : \E ncand \in Candidates :
          ExportDone(j, rc, ncand)
    \/ \E j \in Jobs : \E unlink_ok \in BOOLEAN : Cleanup(j, unlink_ok)
    \/ \E j \in Jobs : \E rc \in ExitCodes : SyncStage(j, rc)
    \/ \E j \in Jobs : \E model_exists \in BOOLEAN : \E rc \in ExitCodes :
          \E wrote \in BOOLEAN : \E cleanup_ok \in BOOLEAN :
             SyncExport(j, model_exists, rc, wrote, cleanup_ok)

Next == Handlers \/ Executor

Spec == Init /\ [][Next]_vars

\* The same application followed for one job more than MAX_CONCURRENT_JOBS.
BurstNext ==
    \/ \E is_video \in BOOLEAN :
          Submit(is_video, MAX_CONCURRENT_JOBS + 1)
    \/ \E j \in Jobs : delete_job(j)
    \/ Executor

BurstSpec == Init /\ [][BurstNext]_vars

SamplerSpec == InitSampler /\ [][Sample]_vars

\* Job j's task takes its next step: the scheduler runs it, or the process it
\* waits for exits (the polling loop sees the exit).
Advance(j) ==
    \/ TaskBegin(j)
    \/ \E video \in Videos \cup {NotAVideo} : TaskExtract(j, video)
    \/ \E rc \in ExitCodes : \E exited \in BOOLEAN : ColmapExit(j, rc, exited)
    \/ TrainTick(j, TRUE)
    \/ \E rc \in ExitCodes : \E has_output \in BOOLEAN :
          TrainDone(j, rc, has_output)
    \/ \E rc \in ExitCodes : \E ncand \in Candidates : ExportDone(j, rc, ncand)
    \/ \E unlink_ok \in BOOLEAN : Cleanup(j, unlink_ok)
    \/ \E rc \in ExitCodes : SyncStage(j, rc)
    \/ \E model_exists \in BOOLEAN : \E rc \in ExitCodes :
          \E wrote \in BOOLEAN : \E cleanup_ok \in BOOLEAN :
             SyncExport(j, model_exists, rc, wrote, cleanup_ok)

\* The event loop runs every task that is ready, and every external process
\* that can exit does.
Fairness == \A j \in Jobs : WF_vars(Advance(j))

\* The application with every external process exiting in the end.
LiveSpec == Init /\ [][Next]_vars /\ Fairness

HangNext ==
    \/ Next
    \/ \E j \in Jobs : Hang(j)

\* The application with external processes that may never exit.
HangSpec == Init /\ [][HangNext]_vars /\ Fairness

PipeNext ==
    \/ Next
    \/ \E j \in Jobs : PipeFull(j)
    \/ \E j \in Jobs : BlockedTick(j)

\* The application with training processes that may write more than a pipe
\* holds.
PipeSpec == Init /\ [][PipeNext]_vars /\ Fairness

(***************************************************************************)
(* Properties                                                              *)
(***************************************************************************)
StatusOf(j) == jobs_status[j].status

Processing == {j \in DOMAIN jobs_status : StatusOf(j) = "processing"}

\* A job whose record was created and then deleted.
Deleted(j) == j <= next_id /\ ~Has(j)

ForwardEdges ==
    { <<"queued", "processing">>, <<"processing", "completed">>,
      <<"processing", "failed">> }

\* C1: a record is created Queued, and its status only ever changes
\* Queued -> Processing, Processing -> Completed or Processing -> Failed;
\* in particular a Completed record never becomes Failed.
C1_StatusForward ==
    [][\A j \in Jobs :
          /\ (~Has(j) /\ Has(j)') => jobs_status'[j].status = "queued"
          /\ (Has(j) /\ Has(j)') =>
                \/ jobs_status'[j].status = jobs_status[j].status
                \/ <<jobs_status[j].status, jobs_status'[j].status>>
                      \in ForwardEdges]_vars

\* C2: at most MAX_CONCURRENT_JOBS jobs are Processing at any time.
C2_AtMostMaxConcurrent == Cardinality(Processing) <= MAX_CONCURRENT_JOBS

\* C3: a Queued job becomes Processing only in a state where fewer than
\* MAX_CONCURRENT_JOBS jobs are Processing (a job held because every slot is
\* busy waits until a Processing job has ended).
C3_AdmitWhenSlotFree ==
    [][\A j \in Jobs :
          (Has(j) /\ Has(j)' /\ jobs_status[j].status = "queued"
              /\ jobs_status'[j].status = "processing")
          => Cardinality(Processing) < MAX_CONCURRENT_JOBS]_vars

\* C4: while a job stays Processing its progress never decreases, from one
\* state to the next, hence between any two status queries.
C4_ProgressMonotone ==
    [][\A j \in Jobs :
          (Has(j) /\ Has(j)' /\ jobs_status[j].status = "processing"
              /\ jobs_status'[j].status = "processing")
          => jobs_status'[j].progress >= jobs_status[j].progress]_vars

\* C4 witness: a query can observe a Processing job whose progress has been
\* raised to the cap by the polling loop of the training stage.
C4_Witness ==
    \E j \in DOMAIN jobs_status :
        /\ running = 0
        /\ task[j] = "train"
        /\ StatusOf(j) = "processing"
        /\ jobs_status[j].progress = PROGRESS_CAP

\* C5: in every state a query can observe, a record has a download_url
\* exactly when it is Completed and an error exactly when it is Failed.
C5_UrlIffCompleted ==
    running = 0 =>
        \A j \in DOMAIN jobs_status :
            /\ (jobs_status[j].download_url # NoUrl)
                   <=> (StatusOf(j) = "completed")
            /\ (jobs_status[j].error # NoError) <=> (StatusOf(j) = "failed")

\* C6: once a job is deleted, a status query for it and a download of its
\* canonical artifact both answer 404, in every state a request can observe.
C6_DeletedIsGone ==
    running = 0 =>
        \A j \in Jobs :
            Deleted(j) => StatusCode(j) = 404 /\ DownloadCode(j) = 404

\* C7: no exception ever leaves a pipeline task.
C7_NothingEscapes == \A j \in Jobs : task[j] # "crashed"

\* A stage of job j has failed: nonzero exit code, or its output is missing.
StageFailed(j) == proc[j].rc \in {"exit", "pred"}

C9_NonVideoRejected ==
    [][generate_3d(FALSE) => UNCHANGED <<jobs_status, task>>]_vars

\* interval = max(1, floor(F / T)), as the specification states it.
Stride(F, T) == IF F \div T > 1 THEN F \div T ELSE 1

\* Number of frames the specification keeps: the multiples of the stride
\* below F, at most T of them.
KeptCount(F, T) ==
    LET m == Cardinality({i \in 0..(F - 1) : i % Stride(F, T) = 0})
    IN  IF m < T THEN m ELSE T

\* C10: the sampler keeps exactly the frames 0, interval, 2*interval, ...,
\* up to T of them, the k-th one under ordinal k; with F >= T it keeps T
\* frames, and 300 frames with T = 50 give 50 frames at stride 6.
C10_UniformSampling ==
    s_out # NoOutput =>
        LET F == s_in.frames
            T == s_in.target
        IN  /\ s_out.count = KeptCount(F, T)
            /\ s_out.files =
                  {<<k, k * Stride(F, T)>> : k \in 0..(KeptCount(F, T) - 1)}
            /\ F >= T => s_out.count = T
            /\ (F = 300 /\ T = 50) =>
                  s_out.count = 50 /\ <<1, 6>> \in s_out.files

\* C10 witness: the sampler has run on 300 frames with target 50 and kept 50
\* frames, the last one frame 294.
C10_Witness ==
    /\ s_in = [frames |-> 300, target |-> 50]
    /\ s_out.count = 50
    /\ <<49, 294>> \in s_out.files

\* C11: when the sampler keeps fewer than 10 frames the task ends there with
\* the record Failed and an error carrying the number of frames kept, and no
\* external stage is ever started for the job; when it keeps 10 or more the
\* task goes on to the next stage with the record still Processing.
C11_TooFewFrames ==
    /\ [][\A j \in Jobs : \A video \in Videos \cup {NotAVideo} :
            (TaskExtract(j, video) /\ ~ExtractFrames(variant, video).raised)
            => LET n == ExtractFrames(variant, video).count
               IN  IF n < 10
                   THEN /\ Has(j)'
                        /\ jobs_status'[j].status = "failed"
                        /\ jobs_status'[j].error = Err("frames", 1, n)
                        /\ task'[j] = "done"
                        /\ proc'[j].stage = 1
                   ELSE /\ Has(j)'
                        /\ jobs_status'[j].status = "processing"
                        /\ task'[j] = AfterExtract(variant)]_vars
    /\ [][\A j \in Jobs : proc[j].rc = "few" => proc'[j] = proc[j]]_vars

\* C11 witness: Nerfstudio application, a source of 8 frames: the sampler kept
\* 8 frames and the job is Failed with an error carrying 8.
C11_Witness ==
    \E j \in DOMAIN jobs_status :
        /\ variant = "nerf"
        /\ proc[j] = Proc(1, "few")
        /\ StatusOf(j) = "failed"
        /\ jobs_status[j].error = Err("frames", 1, 8)

\* C12: for an identifier with no record (never created, or deleted), the
\* status query and the deletion both answer 404, and the deletion changes
\* neither the registry nor the output files nor the working directories;
\* right after a deletion of j, a second one answers 404.
C12_NotFoundNoEffect ==
    /\ [](\A j \in Jobs :
            ~Has(j) => StatusCode(j) = 404 /\ DeleteCode(j) = 404)
    /\ [][\A j \in Jobs :
            /\ (delete_job(j) /\ ~Has(j))
                  => UNCHANGED <<jobs_status, outputs, job_dirs>>
            /\ (get_job_status(j) /\ ~Has(j))
                  => UNCHANGED <<jobs_status, outputs, job_dirs>>
            /\ (delete_job(j) /\ Has(j))
                  => ~Has(j)' /\ DeleteCode(j)' = 404]_vars

\* C12 witness: a request can observe a job that was deleted while another
\* job still has its record: a second deletion of the first answers 404.
C12_Witness ==
    \E j \in Jobs : \E k \in DOMAIN jobs_status :
        /\ running = 0
        /\ variant # "gs"
        /\ Deleted(j)
        /\ DeleteCode(j) = 404
        /\ StatusCode(k) = 200

\* A record in a final status.
Terminal(j) == Has(j) /\ jobs_status[j].status \in {"completed", "failed"}

\* C13: a job whose external process never exits still ends Failed with a
\* timeout error, its task ended and the event loop given back.
C13_HungJobFails ==
    \A j \in Jobs :
        (task[j] = "hung" /\ Has(j))
            ~> \/ ~Has(j)
               \/ /\ task[j] # "hung"
                  /\ running # j
                  /\ jobs_status[j].status = "failed"
                  /\ jobs_status[j].error.kind = "timeout"

\* C14: when every external process exits and every ready task is run, each
\* submitted job is in the end deleted, Completed or Failed.
C14_EventuallyTerminal ==
    \A j \in Jobs : (task[j] = "pending") ~> (~Has(j) \/ Terminal(j))

\* C14 witness: with two jobs submitted, one has run its whole pipeline and
\* is Completed while the other is still Queued.
C14_Witness ==
    \E j \in DOMAIN jobs_status : \E k \in DOMAIN jobs_status :
        /\ StatusOf(j) = "completed"
        /\ task[j] = "done"
        /\ task[k] = "pending"

\* C15: whenever a request can observe a job as Completed, the record has a
\* download_url and the download of <job_id>.ply answers 200.
C15_CompletedHasArtifact ==
    running = 0 =>
        \A j \in DOMAIN jobs_status :
            StatusOf(j) = "completed"
            => /\ jobs_status[j].download_url = DownloadUrl(j)
               /\ DownloadCode(j) = 200

\* C16: after an export that exited with code 0, a job whose record exists
\* ends Failed with an artifact-not-found error when no candidate file is
\* found, Failed with an artifact-ambiguous error and nothing moved when more
\* than one is found, and Completed with the file at its canonical path when
\* exactly one is found.
C16_ExactlyOneCandidate ==
    [][\A j \in Jobs : \A ncand \in Candidates :
          (ExportDone(j, 0, ncand) /\ Has(j))
          => CASE ncand = 0 ->
                    /\ jobs_status'[j].status = "failed"
                    /\ jobs_status'[j].error.kind = "artifact"
               [] ncand = 1 ->
                    /\ jobs_status'[j].status = "completed"
                    /\ j \in outputs'
               [] OTHER ->
                    /\ jobs_status'[j].status = "failed"
                    /\ jobs_status'[j].error.kind = "ambiguous"
                    /\ outputs' = outputs]_vars

\* C17: the step by which a job's task ends with the record Completed leaves
\* neither the job's working directory nor its uploaded video, removes no
\* output artifact, and leaves the working directory and the upload of every
\* other job as they were.
C17_CleanupFrame ==
    [][\A j \in Jobs :
          (task[j] # "done" /\ task'[j] = "done" /\ Has(j)'
              /\ jobs_status'[j].status = "completed")
          => /\ j \notin job_dirs'
             /\ uploads'[j] = "none"
             /\ outputs \subseteq outputs'
             /\ \A k \in Jobs \ {j} :
                   /\ (k \in job_dirs') <=> (k \in job_dirs)
                   /\ uploads'[k] = uploads[k]]_vars

\* C17 witness: a job is Completed and cleaned up, its artifact in place,
\* while another job still has its working directory, its upload and its
\* artifact.
C17_Witness ==
    \E j \in DOMAIN jobs_status : \E k \in Jobs \ {j} :
        /\ task[j] = "done"
        /\ StatusOf(j) = "completed"
        /\ j \notin job_dirs
        /\ uploads[j] = "none"
        /\ j \in outputs
        /\ k \in job_dirs
        /\ uploads[k] = "video"
        /\ k \in outputs

\* C18: a deletion of a job that has a record removes the record and the
\* canonical artifact and leaves no working directory of that job.
C18_DeleteRemovesAll ==
    [][\A j \in Jobs :
          (delete_job(j) /\ Has(j))
          => /\ ~Has(j)'
             /\ j \notin outputs'
             /\ j \notin job_dirs']_vars

\* C19: a record leaves the registry only by a deletion of its own id, and
\* as long as it is there the status query answers 200 with it.
C19_RemovedOnlyByDelete ==
    /\ [][\A j \in Jobs : (Has(j) /\ ~Has(j)') => delete_job(j)]_vars
    /\ [](\A j \in Jobs : Has(j) => StatusCode(j) = 200)

\* C19 witness: a request can observe a Failed record and a Completed record
\* whose tasks have ended, both still in the registry.
C19_Witness ==
    \E j \in DOMAIN jobs_status : \E k \in DOMAIN jobs_status :
        /\ running = 0
        /\ task[j] = "done" /\ StatusOf(j) = "failed"
        /\ task[k] = "done" /\ StatusOf(k) = "completed"
        /\ StatusCode(j) = 200 /\ StatusCode(k) = 200

\* The last stage of each pipeline.
LastStage(v) ==
    CASE v = "nerf" -> 4
      [] v = "gs" -> 3
      [] v = "colmap" -> 5

\* The step by which job j's task finds that the stage it waited for exited
\* with code 0 and left its output, or that the sampler kept enough frames.
SuccessStep(j) ==
    \/ \E video \in Videos :
          /\ TaskExtract(j, video)
          /\ ~SamplerResult[variant][video].raised
          /\ SamplerResult[variant][video].count >= 10
    \/ \E exited \in BOOLEAN : ColmapExit(j, 0, exited)
    \/ TrainDone(j, 0, TRUE)

\* C20: a record becomes Completed only by the step that confirms the last
\* stage of the pipeline (exit code 0, its output file in place), and a stage
\* is started only right after the stage before it, once that one has been
\* confirmed (stage 1, the sampling, has none before it).
C20_StagesInOrder ==
    [][\A j \in Jobs :
          /\ (Has(j) /\ Has(j)' /\ jobs_status[j].status # "completed"
                  /\ jobs_status'[j].status = "completed")
                => /\ proc'[j] = Proc(LastStage(variant), "ok")
                   /\ j \in outputs'
          /\ (proc'[j].stage > proc[j].stage /\ proc'[j].stage >= 2)
                => IF proc[j].rc = "ok"
                   THEN proc'[j].stage = proc[j].stage + 1
                   ELSE SuccessStep(j)]_vars

\* C21: a submission that is accepted adds exactly one record, under an
\* identifier no job has had, with status Queued, progress 0, no download_url
\* and no error, and leaves every record that existed as it was.
C21_SubmitCreatesOne ==
    [][\A is_video \in BOOLEAN :
          (generate_3d(is_video) /\ jobs_status' # jobs_status)
          => \E j \in Jobs :
                /\ j > next_id
                /\ ~Has(j)
                /\ DOMAIN jobs_status' = DOMAIN jobs_status \cup {j}
                /\ jobs_status'[j] =
                      [status |-> "queued", progress |-> 0,
                       download_url |-> NoUrl, error |-> NoError]
                /\ \A k \in DOMAIN jobs_status :
                      jobs_status'[k] = jobs_status[k]]_vars

\* C21 witness: a second job has been submitted while the first one is
\* Processing: the new record is Queued with progress 0.
C21_Witness ==
    \E j \in DOMAIN jobs_status : \E k \in DOMAIN jobs_status :
        /\ j < k
        /\ StatusOf(j) = "processing"
        /\ jobs_status[k] = NewRecord
        /\ task[k] = "pending"

\* Job j's task is in the training stage (in the polling loop, or past it
\* and about to read the exit code).
Training(j) == task[j] \in {"train", "train_comm"}

\* The smaller of two numbers.
Least(a, b) == IF a <= b THEN a ELSE b

\* The step by which job j's training stage starts: progress is 40.
TrainingStartsAt40(j) ==
    (~Training(j) /\ Training(j)' /\ Has(j)')
    => jobs_status'[j].progress = 40

\* The step by which job j's training stage ends with exit code 0 and its
\* output in place: the record is Processing with progress 90, or already
\* Completed (main_gaussian_splatting.py writes 90 and, with no await in
\* between, the success fields).
TrainingEndsAt90(j) ==
    (TrainDone(j, 0, TRUE) /\ Has(j))
    => \/ /\ jobs_status'[j].status = "processing"
          /\ jobs_status'[j].progress = 90
       \/ /\ variant = "gs"
          /\ jobs_status'[j].status = "completed"

\* C22 as stated: in the training stage progress starts at 40, each polling
\* tick adds 5 up to the ceiling 90, and progress is 90 once the stage has
\* completed successfully.
C22_TicksToCeiling ==
    [][\A j \in Jobs :
          /\ TrainingStartsAt40(j)
          /\ \A exited \in BOOLEAN :
                (TrainTick(j, exited) /\ Has(j))
                => jobs_status'[j].progress =
                      Least(jobs_status[j].progress + 5, 90)
          /\ TrainingEndsAt90(j)]_vars

\* C22 amended: each polling tick adds 5 up to 85, where progress stays
\* until the stage ends; in the training stage progress is between 40 and 85
\* and so never exceeds 90.
C22_TicksTo85 ==
    /\ [][\A j \in Jobs :
            /\ TrainingStartsAt40(j)
            /\ \A exited \in BOOLEAN :
                  (TrainTick(j, exited) /\ Has(j))
                  => jobs_status'[j].progress =
                        Least(jobs_status[j].progress + 5, 85)
            /\ TrainingEndsAt90(j)]_vars
    /\ [](\A j \in DOMAIN jobs_status :
            Training(j) => /\ jobs_status[j].progress >= 40
                           /\ jobs_status[j].progress <= 85)

\* C22 witness: Nerfstudio application: the polling loop has brought the
\* progress to 85 and the loop has then seen the process exit.
C22_Witness ==
    \E j \in DOMAIN jobs_status :
        /\ variant = "nerf"
        /\ task[j] = "train_comm"
        /\ StatusOf(j) = "processing"
        /\ jobs_status[j].progress = 85

\* Any step of job j's task, the ticks of the polling loop included.
TaskStep(j) == Advance(j) \/ TrainTick(j, FALSE)

\* C23: the record of a job is changed only by a step of that job's own
\* task, its except block included (and removed only by a deletion of that
\* job): a step of another job's task leaves it as it was, and so do the
\* status query and the listing.
C23_OnlyOwnRecord ==
    [][/\ \A k \in DOMAIN jobs_status :
            (~Has(k)' \/ jobs_status'[k] # jobs_status[k])
            => (TaskStep(k) \/ delete_job(k))
       /\ ((\E j \in Jobs : get_job_status(j)) \/ list_jobs)
            => jobs_status' = jobs_status]_vars

\* C23 witness: one job has been marked Failed by the except block of its
\* task while another job is Processing at progress 40.
C23_Witness ==
    \E j \in DOMAIN jobs_status : \E k \in DOMAIN jobs_status :
        /\ task[j] = "done" /\ StatusOf(j) = "failed"
        /\ StatusOf(k) = "processing"
        /\ jobs_status[k].progress = 40

\* C24: in every state a request can observe, the listing answers 200 with
\* exactly the records of the registry, one per identifier, and a total
\* equal to their number.
C24_ListIsSnapshot ==
    running = 0 =>
        /\ ListCode(variant) = 200
        /\ ListBody.ids = DOMAIN jobs_status
        /\ ListBody.jobs = {jobs_status[k] : k \in DOMAIN jobs_status}
        /\ ListBody.total = Cardinality(DOMAIN jobs_status)

\* C25: under either value of the cleanup flag, a job whose task has ended
\* with the record Completed has lost its working directory and its upload
\* when the flag is true and still has both when the flag is false.
C25_CleanupByFlag ==
    running = 0 =>
        \A flag \in CLEANUP_TEMP_FILES : \A j \in DOMAIN jobs_status :
            (task[j] = "done" /\ StatusOf(j) = "completed")
            => IF flag
               THEN j \notin job_dirs /\ uploads[j] = "none"
               ELSE j \in job_dirs /\ uploads[j] # "none"

\* The step by which job j's task learns how an external process ended.
StageEnds(j) ==
    \/ \E rc \in ExitCodes : \E exited \in BOOLEAN : ColmapExit(j, rc, exited)
    \/ \E rc \in ExitCodes : \E has_output \in BOOLEAN :
          TrainDone(j, rc, has_output)
    \/ \E rc \in ExitCodes : \E ncand \in Candidates : ExportDone(j, rc, ncand)
    \/ \E rc \in ExitCodes : SyncStage(j, rc)
    \/ \E rc \in ExitCodes : \E wrote \in BOOLEAN : \E cleanup_ok \in BOOLEAN :
          SyncExport(j, TRUE, rc, wrote, cleanup_ok)

\* C26: the task is suspended while an external process of its job runs:
\* the step that learns how the process ended starts from a state in which
\* no task holds the event loop, so that requests and other tasks could run
\* while the process did.
C26_SuspendedWhileStageRuns ==
    [][\A j \in Jobs : StageEnds(j) => running = 0]_vars

\* C27: a job in the training stage leaves it in the end, whatever the
\* process writes to its output pipes.
C27_TrainingEnds ==
    \A j \in Jobs :
        (task[j] \in {"train", "train_blocked"})
            ~> (task[j] \notin {"train", "train_blocked"})

\* C28: no sampler ever raises for a division by zero, and a job fails for
\* having kept 0 frames only when its upload is not a video (frame 0 of a
\* source that has frames is always kept).
C28_StrideAtLeastOne ==
    \A j \in Jobs :
        /\ proc[j].rc # "raised"
        /\ (Has(j) /\ proc[j].rc = "few" /\ jobs_status[j].error.n = 0)
              => uploads[j] # "video"

\* C29: a submission that is rejected for its content type is answered with
\* code 400, not with the code 500 of an unexpected failure.
C29_RejectedWith400 ==
    Rejects(variant, FALSE) => SubmitCode(variant, FALSE) = 400

\* C30: every record's progress is in 0..100, a Queued record has progress
\* 0, and a record has progress 100 exactly when it is Completed.
C30_ProgressRange ==
    \A j \in DOMAIN jobs_status :
        /\ jobs_status[j].progress \in 0..100
        /\ StatusOf(j) = "queued" => jobs_status[j].progress = 0
        /\ (StatusOf(j) = "completed") <=> (jobs_status[j].progress = 100)

====
